---- MODULE Spec2Model ----
(***************************************************************************)
(* Model of the architecture scaffolder                                    *)
(*   lesson-1-Designing_Multi-Agent_Architectures_with_LangGraph/          *)
(*   examples/maa.py                                                       *)
(* AgentArchitectureDesigner.build(kind, n_agents) constructs a StateGraph *)
(* of stub nodes for one of four topologies.  A graph is modelled as the   *)
(* ordered list of node functions handed to add_node and the set of pairs  *)
(* handed to add_edge.  A node function is a record carrying its __name__, *)
(* the tuple inside its Command[Literal[...]] return annotation (the       *)
(* declared dynamic destinations) and the goto its body returns.           *)
(* Strings that the code inspects character by character (kind, which is   *)
(* lower-cased) are sequences of one-character strings.                    *)
(***************************************************************************)
EXTENDS Integers, Sequences, FiniteSets, TLC

VARIABLES
    call,       \* arguments of the latest build call, or NoCall
    workflow,   \* the StateGraph the latest build call constructed, or NoGraph
    returned,   \* the graph the latest build call returned, or NoGraph
    raised,     \* the ValueError message of the latest build call, or NoError
    held,       \* an earlier call the caller kept, [call, returned, raised], and
                \* whether build was called again since (later), or NoCall
    cur,        \* position of the run of the returned graph (Idle when none)
    steps,      \* node transitions the run has made
    visits,     \* how often the run entered each node of the returned graph
    stub        \* result of the latest direct _dynamic_stub call, or NoStub

vars == <<call, workflow, returned, raised, held, cur, steps, visits, stub>>

----------------------------------------------------------------------------
(* Bounds of the model *)

\* largest n_agents passed to build
MaxN == 5
\* transitions a run may make beyond the longest pipeline
MaxExtraSteps == 3
\* longest choices list handed directly to _dynamic_stub
MaxChoices == 2

StepCap == MaxN + 1 + MaxExtraSteps
\* the n_agents values build is called with; every value below 1 takes the
\* same branch of build
NValues == (-1)..MaxN

----------------------------------------------------------------------------
(* Values *)

START == "__start__"
END == "__end__"
NoCall == [none |-> "call"]
NoGraph == [none |-> "graph"]
NoError == "NoError"
NoStub == [none |-> "stub"]
NoGoto == "None"
Idle == "Idle"

ErrNAgents == "n_agents must be >= 1"
ErrSupervisor == "Supervisor needs at least 2 nodes (1 supervisor + >=1 worker)."
ErrUnknownKind == "Unknown architecture kind"

Range(s) == {s[i] : i \in DOMAIN s}

\* number of positions of s holding x
Count(s, x) == Cardinality({i \in DOMAIN s : s[i] = x})

----------------------------------------------------------------------------
(* str.lower() on the kind argument *)

UpperLetters ==
    <<"A","B","C","D","E","F","G","H","I","J","K","L","M",
      "N","O","P","Q","R","S","T","U","V","W","X","Y","Z">>
LowerLetters ==
    <<"a","b","c","d","e","f","g","h","i","j","k","l","m",
      "n","o","p","q","r","s","t","u","v","w","x","y","z">>

lowerChar(c) ==
    IF c \in Range(UpperLetters)
    THEN LowerLetters[CHOOSE i \in DOMAIN UpperLetters : UpperLetters[i] = c]
    ELSE c

lower(s) == [i \in DOMAIN s |-> lowerChar(s[i])]

KPipeline == <<"p","i","p","e","l","i","n","e">>
KNetwork == <<"n","e","t","w","o","r","k">>
KSupervisor == <<"s","u","p","e","r","v","i","s","o","r">>
KHierarchical == <<"h","i","e","r","a","r","c","h","i","c","a","l">>

\* the kind strings build is called with
KindInputs ==
    { KPipeline, KNetwork, KSupervisor, KHierarchical,
      <<"P","I","P","E","L","I","N","E">>,
      <<"S","u","p","e","r","v","i","s","o","r">>,
      <<"h","i","e","r","A","R","C","H","i","c","a","l">>,
      <<"b","o","g","u","s">>,
      <<" ","n","e","t","w","o","r","k">>,
      <<>> }

----------------------------------------------------------------------------
(* Node functions *)

\* faulty variant: the identifier without its number
AgentName_NoIndex(i) == "l" \o "_agent"

\* f"l{i}_agent"
AgentName(i) == "l" \o ToString(i) \o "_agent"

\* faulty variant: the list is numbered on from the nodes of the graph
\* returned before, as if the numbering were kept between calls
AgentNames_Leaky(lo, hi) ==
    LET base == IF returned # NoGraph THEN Len(returned.nodes) ELSE 0
    IN  IF hi > lo THEN [k \in 1..(hi - lo) |-> AgentName(base + lo + k - 1)] ELSE <<>>

\* [f"l{i}_agent" for i in range(lo, hi)]
AgentNames(lo, hi) ==
    IF hi > lo THEN [k \in 1..(hi - lo) |-> AgentName(lo + k - 1)] ELSE <<>>

\* make_noop(nn): a fixed-edge node, no return annotation, returns None
make_noop(nn) ==
    [name |-> nn, dynamic |-> FALSE, literal |-> <<>>, goto |-> NoGoto]

\* faulty variant of _dynamic_stub: END is not appended to the choices
dynamic_stub_NoEnd(name, choices) ==
    [name |-> name, dynamic |-> TRUE, literal |-> choices,
     goto |-> IF choices # <<>> THEN choices[1] ELSE END]

\* faulty variant of _dynamic_stub: the body returns the last choice
dynamic_stub_LastChoice(name, choices) ==
    [name |-> name, dynamic |-> TRUE,
     literal |-> choices \o (IF END \notin Range(choices) THEN <<END>> ELSE <<>>),
     goto |-> IF choices # <<>> THEN choices[Len(choices)] ELSE END]

\* _dynamic_stub(name, choices)
dynamic_stub(name, choices) ==
    [name |-> name, dynamic |-> TRUE,
     literal |-> choices \o (IF END \notin Range(choices) THEN <<END>> ELSE <<>>),
     goto |-> IF choices # <<>> THEN choices[1] ELSE END]

----------------------------------------------------------------------------
(* StateGraph *)

\* StateGraph(MessagesState)
StateGraph == [nodes |-> <<>>, edges |-> {}]

\* workflow.add_node(fn)
add_node(g, fn) == [g EXCEPT !.nodes = Append(@, fn)]

\* workflow.add_edge(a, b)
add_edge(g, a, b) == [g EXCEPT !.edges = @ \cup {<<a, b>>}]

\* for fn in fns: workflow.add_node(fn)
RECURSIVE add_nodes(_, _)
add_nodes(g, fns) ==
    IF fns = <<>> THEN g ELSE add_nodes(add_node(g, Head(fns)), Tail(fns))

\* for a, b in zip(names, names[1:]): workflow.add_edge(a, b)
RECURSIVE add_chain(_, _)
add_chain(g, names) ==
    IF Len(names) < 2 THEN g
    ELSE add_chain(add_edge(g, names[1], names[2]), Tail(names))

\* outcome of a build call
Returns(g) == [workflow |-> g, returned |-> g, raised |-> NoError]
Raises(g, msg) == [workflow |-> g, returned |-> NoGraph, raised |-> msg]

----------------------------------------------------------------------------
(* The four topology constructors *)

\* faulty variant of _build_pipeline: no closing edge to END
build_pipeline_NoExit(n) ==
    LET names == AgentNames(1, n + 1)
        g1 == add_nodes(StateGraph, [i \in DOMAIN names |-> make_noop(names[i])])
        g2 == add_edge(g1, START, names[1])
    IN  Returns(add_chain(g2, names))

\* _build_pipeline(n)
build_pipeline(n) ==
    LET names == AgentNames(1, n + 1)
        g1 == add_nodes(StateGraph, [i \in DOMAIN names |-> make_noop(names[i])])
        g2 == add_edge(g1, START, names[1])
        g3 == add_chain(g2, names)
    IN  Returns(add_edge(g3, names[Len(names)], END))

\* faulty variant of _build_network: a node is left out of its own choices
build_network_NoSelf(n) ==
    LET names == AgentNames(1, n + 1)
        others(nm) == SelectSeq(names, LAMBDA x : x # nm)
        g1 == add_nodes(StateGraph,
                        [i \in DOMAIN names |->
                            dynamic_stub(names[i], others(names[i]) \o <<END>>)])
    IN  Returns(add_edge(g1, START, names[1]))

\* _build_network(n)
build_network(n) ==
    LET names == AgentNames(1, n + 1)
        choices == names \o <<END>>
        g1 == add_nodes(StateGraph,
                        [i \in DOMAIN names |-> dynamic_stub(names[i], choices)])
    IN  Returns(add_edge(g1, START, names[1]))

\* faulty variant of _build_supervisor: no n < 2 check
build_supervisor_NoCheck(n) ==
    LET supervisor == "supervisor"
        workers == AgentNames(1, n)
        g1 == add_node(StateGraph, dynamic_stub(supervisor, workers \o <<END>>))
        g2 == add_nodes(g1, [i \in DOMAIN workers |->
                                dynamic_stub(workers[i], <<supervisor, END>>)])
    IN  Returns(add_edge(g2, START, supervisor))

\* faulty variant of _build_supervisor: n workers instead of n - 1
build_supervisor_ExtraWorker(n) ==
    IF n < 2 THEN Raises(NoGraph, ErrSupervisor)
    ELSE
    LET supervisor == "supervisor"
        workers == AgentNames(1, n + 1)
        g1 == add_node(StateGraph, dynamic_stub(supervisor, workers \o <<END>>))
        g2 == add_nodes(g1, [i \in DOMAIN workers |->
                                dynamic_stub(workers[i], <<supervisor, END>>)])
    IN  Returns(add_edge(g2, START, supervisor))

\* _build_supervisor(n)
build_supervisor(n) ==
    IF n < 2 THEN Raises(NoGraph, ErrSupervisor)
    ELSE
    LET supervisor == "supervisor"
        workers == AgentNames(1, n)
        g1 == add_node(StateGraph, dynamic_stub(supervisor, workers \o <<END>>))
        g2 == add_nodes(g1, [i \in DOMAIN workers |->
                                dynamic_stub(workers[i], <<supervisor, END>>)])
    IN  Returns(add_edge(g2, START, supervisor))

\* 0-indexed position of the parent of the node at 0-indexed position i,
\* faulty variant: i // 2 in place of (i - 1) // 2
ParentIndex_OffByOne(i) == i \div 2

\* (i - 1) // 2
ParentIndex(i) == (i - 1) \div 2

\* parents: for i in range(1, len(names)): parents[names[i]] = names[(i - 1) // 2]
Parents(names) ==
    [c \in {names[i + 1] : i \in 1..(Len(names) - 1)} |->
        names[ParentIndex((CHOOSE i \in 1..(Len(names) - 1) : names[i + 1] = c)) + 1]]

\* children: for child, parent in parents.items(): children[parent].append(child)
Children(names) ==
    LET parents == Parents(names)
    IN  [nm \in Range(names) |->
            SelectSeq(names, LAMBDA c : c \in DOMAIN parents /\ parents[c] = nm)]

\* faulty variant of the node construction: a non-leaf is sent up to its
\* parent, not down to its children
HierarchicalNode_UpOnly(names, nm) ==
    LET parents == Parents(names)
    IN  dynamic_stub(nm, (IF nm \in DOMAIN parents
                          THEN <<parents[nm]>> ELSE <<>>) \o <<END>>)

\* the node function _build_hierarchical creates for nm
HierarchicalNode(names, nm) ==
    LET parents == Parents(names)
        children == Children(names)
    IN  IF children[nm] # <<>>
        THEN dynamic_stub(nm, children[nm] \o <<END>>)
        ELSE dynamic_stub(nm, (IF nm \in DOMAIN parents
                                THEN <<parents[nm]>> ELSE <<>>) \o <<END>>)

\* _build_hierarchical(n)
build_hierarchical(n) ==
    LET names == AgentNames(1, n + 1)
        root == names[1]
        g1 == add_nodes(StateGraph,
                        [i \in DOMAIN names |-> HierarchicalNode(names, names[i])])
    IN  Returns(add_edge(g1, START, root))

\* AgentArchitectureDesigner.build(kind, n_agents)
build(kind, n_agents) ==
    LET k == lower(kind)
    IN  IF n_agents < 1 THEN Raises(NoGraph, ErrNAgents)
        ELSE IF k = KPipeline THEN build_pipeline(n_agents)
        ELSE IF k = KNetwork THEN build_network(n_agents)
        ELSE IF k = KSupervisor THEN build_supervisor(n_agents)
        ELSE IF k = KHierarchical THEN build_hierarchical(n_agents)
        ELSE Raises(NoGraph, ErrUnknownKind)

----------------------------------------------------------------------------
(* Running a returned graph: each node's own behaviour *)

Node(g, nm) == g.nodes[CHOOSE i \in DOMAIN g.nodes : g.nodes[i].name = nm]

NodeNames(g) == {g.nodes[i].name : i \in DOMAIN g.nodes}

\* where the run goes from position p: the fixed edges out of p and, for a
\* node that returns Command(goto=...), that goto
Successors(g, p) ==
    {e[2] : e \in {d \in g.edges : d[1] = p}}
    \cup (IF p \in NodeNames(g) /\ Node(g, p).dynamic THEN {Node(g, p).goto} ELSE {})

----------------------------------------------------------------------------
(* Actions *)

Init ==
    /\ call = NoCall
    /\ workflow = NoGraph
    /\ returned = NoGraph
    /\ raised = NoError
    /\ held = NoCall
    /\ cur = Idle
    /\ steps = 0
    /\ visits = <<>>
    /\ stub = NoStub

\* designer.build(kind, n_agents); a new call replaces the caller's current result
Build(kind, n) ==
    LET out == build(kind, n)
    IN  /\ call' = [kind |-> kind, n |-> n]
        /\ workflow' = out.workflow
        /\ returned' = out.returned
        /\ raised' = out.raised
        /\ cur' = Idle
        /\ steps' = 0
        /\ visits' = <<>>
        /\ held' = IF held = NoCall THEN held ELSE [held EXCEPT !.later = TRUE]
        /\ UNCHANGED stub

\* the caller keeps the outcome of the latest call while making further calls
Keep ==
    /\ call # NoCall
    /\ held = NoCall
    /\ held' = [call |-> call, returned |-> returned, raised |-> raised,
                later |-> FALSE]
    /\ UNCHANGED <<call, workflow, returned, raised, cur, steps, visits, stub>>

\* graph.invoke(...): the run enters at START
Invoke ==
    /\ returned # NoGraph
    /\ cur = Idle
    /\ cur' = START
    /\ steps' = 0
    /\ visits' = [nm \in NodeNames(returned) |-> 0]
    /\ UNCHANGED <<call, workflow, returned, raised, held, stub>>

\* one transition of the run
Step ==
    /\ returned # NoGraph
    /\ cur \notin {Idle, END}
    /\ steps < StepCap
    /\ \E nxt \in Successors(returned, cur) :
        /\ cur' = nxt
        /\ visits' = IF nxt \in DOMAIN visits
                     THEN [visits EXCEPT ![nxt] = @ + 1] ELSE visits
    /\ steps' = steps + 1
    /\ UNCHANGED <<call, workflow, returned, raised, held, stub>>

\* a direct call _dynamic_stub(name, choices)
CallDynamicStub(name, choices) ==
    /\ stub' = [name |-> name, choices |-> choices, fn |-> dynamic_stub(name, choices)]
    /\ UNCHANGED <<call, workflow, returned, raised, held, cur, steps, visits>>

\* the choices lists _dynamic_stub is called with directly
ChoiceInputs ==
    UNION {[1..k -> {AgentName(1), "supervisor", END}] : k \in 0..MaxChoices}

\* build calls and runs of the returned graph
Next ==
    \/ \E kind \in KindInputs, n \in NValues : Build(kind, n)
    \/ Invoke
    \/ Step

Spec == Init /\ [][Next]_vars

\* build calls by a caller that keeps one earlier outcome
NextPair ==
    \/ \E kind \in KindInputs, n \in NValues : Build(kind, n)
    \/ Keep

PairSpec == Init /\ [][NextPair]_vars

\* build calls and direct calls of the shared helper
NextStub ==
    \/ \E kind \in KindInputs, n \in NValues : Build(kind, n)
    \/ \E choices \in ChoiceInputs : CallDynamicStub(AgentName(2), choices)

StubSpec == Init /\ [][NextStub]_vars

----------------------------------------------------------------------------
(* Vocabulary of the properties *)

\* s spells the lower-case word k in some mix of upper and lower case
Spells(s, k) ==
    /\ Len(s) = Len(k)
    /\ \A i \in DOMAIN k :
        \/ s[i] = k[i]
        \/ \E j \in DOMAIN LowerLetters : LowerLetters[j] = k[i] /\ UpperLetters[j] = s[i]

Called == call # NoCall
IsKind(k) == Called /\ Spells(call.kind, k)
ValidKind == IsKind(KPipeline) \/ IsKind(KNetwork) \/ IsKind(KSupervisor) \/ IsKind(KHierarchical)
Built == Called /\ returned # NoGraph

\* the i-th generated agent identifier, l<i>_agent
L(i) == "l" \o ToString(i) \o "_agent"

NameList(g) == [i \in DOMAIN g.nodes |-> g.nodes[i].name]
Dynamic(g) == {nm \in NodeNames(g) : Node(g, nm).dynamic}
DynSet(g, nm) == Range(Node(g, nm).literal)

----------------------------------------------------------------------------
\* C1: build raises ValueError exactly when n_agents < 1, or the kind is no
\* spelling (in any case) of pipeline, network, supervisor, hierarchical, or
\* the kind is supervisor and n_agents < 2; every other call returns a graph;
\* a failing call has constructed no graph and returns none.
C1_FailsExactlyOnInvalidArguments ==
    Called =>
        LET fails == \/ call.n < 1
                     \/ ~ValidKind
                     \/ (IsKind(KSupervisor) /\ call.n < 2)
        IN  /\ (raised # NoError) <=> fails
            /\ fails => (returned = NoGraph /\ workflow = NoGraph)
            /\ ~fails => (returned # NoGraph /\ returned = workflow)

C1_Witness ==
    /\ Called
    /\ call.kind = <<"S","u","p","e","r","v","i","s","o","r">>
    /\ call.n = 1
    /\ raised = ErrSupervisor
    /\ workflow = NoGraph

\* C2: for n >= 1 a pipeline graph has the fixed edges of the chain
\* start -> l1 -> ... -> ln -> end and no others (n + 1 edges, one in and one
\* out of every node) and no dynamic edge.
C2_PipelineIsAChain ==
    (IsKind(KPipeline) /\ call.n >= 1) =>
        /\ Built
        /\ NameList(returned) = [i \in 1..call.n |-> L(i)]
        /\ returned.edges =
              {<<START, L(1)>>, <<L(call.n), END>>}
              \cup {<<L(i), L(i + 1)>> : i \in 1..(call.n - 1)}
        /\ Cardinality(returned.edges) = call.n + 1
        /\ \A nm \in NodeNames(returned) :
              /\ Cardinality({e \in returned.edges : e[1] = nm}) = 1
              /\ Cardinality({e \in returned.edges : e[2] = nm}) = 1
        /\ Dynamic(returned) = {}
        /\ \A nm \in NodeNames(returned) : DynSet(returned, nm) = {}

C2_Witness ==
    /\ IsKind(KPipeline)
    /\ call.n = 3
    /\ Built
    /\ returned.edges = {<<START, L(1)>>, <<L(1), L(2)>>, <<L(2), L(3)>>, <<L(3), END>>}

\* C3: for n >= 2 a supervisor graph has the node supervisor and the workers
\* l1..l(n-1); the supervisor's destinations are all workers and end, each
\* worker's are supervisor and end, and start -> supervisor is the only
\* fixed edge.
C3_SupervisorIsAStar ==
    (IsKind(KSupervisor) /\ call.n >= 2) =>
        /\ Built
        /\ NameList(returned) =
              <<"supervisor">> \o [i \in 1..(call.n - 1) |-> L(i)]
        /\ Dynamic(returned) = NodeNames(returned)
        /\ DynSet(returned, "supervisor") = {L(i) : i \in 1..(call.n - 1)} \cup {END}
        /\ \A i \in 1..(call.n - 1) : DynSet(returned, L(i)) = {"supervisor", END}
        /\ returned.edges = {<<START, "supervisor">>}

C3_Witness ==
    /\ IsKind(KSupervisor)
    /\ call.n = 3
    /\ Built
    /\ DynSet(returned, "supervisor") = {L(1), L(2), END}
    /\ DynSet(returned, L(2)) = {"supervisor", END}

\* C4: for n >= 1 a hierarchical graph gives the node at 0-indexed position
\* i > 0 the parent at position (i - 1) // 2; a node has at most two
\* children; a node with children has exactly its children and end as
\* destinations, a leaf exactly its parent and end, the root of a one-node
\* graph end alone; start -> root (the first node) is the only fixed edge.
C4_HierarchicalIsABinaryHeap ==
    (IsKind(KHierarchical) /\ call.n >= 1) =>
        LET n == call.n
            kids(j) == {i \in 1..(n - 1) : (i - 1) \div 2 = j}
        IN  /\ Built
            /\ NameList(returned) = [i \in 1..n |-> L(i)]
            /\ Dynamic(returned) = NodeNames(returned)
            /\ returned.edges = {<<START, L(1)>>}
            /\ \A j \in 0..(n - 1) :
                /\ Cardinality(kids(j)) <= 2
                /\ kids(j) # {} =>
                      DynSet(returned, L(j + 1)) = {L(i + 1) : i \in kids(j)} \cup {END}
                /\ (kids(j) = {} /\ j > 0) =>
                      DynSet(returned, L(j + 1)) = {L(((j - 1) \div 2) + 1), END}
                /\ (kids(j) = {} /\ j = 0) =>
                      DynSet(returned, L(j + 1)) = {END}

C4_Witness ==
    /\ IsKind(KHierarchical)
    /\ call.n = 4
    /\ Built
    /\ DynSet(returned, L(1)) = {L(2), L(3), END}
    /\ DynSet(returned, L(2)) = {L(4), END}
    /\ DynSet(returned, L(3)) = {L(1), END}
    /\ DynSet(returned, L(4)) = {L(2), END}

\* C5: for n >= 1 every node of a network graph has the same n + 1
\* destinations, all n nodes (itself included) and end, and start -> l1 is
\* the only fixed edge.
C5_NetworkIsAFullMeshWithSelfLoops ==
    (IsKind(KNetwork) /\ call.n >= 1) =>
        /\ Built
        /\ NameList(returned) = [i \in 1..call.n |-> L(i)]
        /\ Dynamic(returned) = NodeNames(returned)
        /\ \A nm \in NodeNames(returned) :
              /\ DynSet(returned, nm) = NodeNames(returned) \cup {END}
              /\ nm \in DynSet(returned, nm)
              /\ Cardinality(DynSet(returned, nm)) = call.n + 1
              /\ Len(Node(returned, nm).literal) = call.n + 1
        /\ returned.edges = {<<START, L(1)>>}

C5_Witness ==
    /\ IsKind(KNetwork)
    /\ call.n = 3
    /\ Built
    /\ DynSet(returned, L(2)) = {L(1), L(2), L(3), END}

\* C6: every returned graph has exactly n_agents nodes with pairwise distinct
\* identifiers; a supervisor graph has the supervisor and n_agents - 1
\* workers, none of which is named supervisor.
C6_ExactlyNDistinctNodes ==
    Built =>
        /\ Len(returned.nodes) = call.n
        /\ Cardinality(NodeNames(returned)) = call.n
        /\ \A i, j \in DOMAIN returned.nodes :
              returned.nodes[i].name = returned.nodes[j].name => i = j
        /\ IsKind(KSupervisor) =>
              /\ returned.nodes[1].name = "supervisor"
              /\ Len(Tail(returned.nodes)) = call.n - 1
              /\ \A i \in 2..Len(returned.nodes) : returned.nodes[i].name # "supervisor"

C6_Witness ==
    /\ Built
    /\ IsKind(KSupervisor)
    /\ call.n = MaxN
    /\ Cardinality(NodeNames(returned)) = MaxN

\* positions reachable from START over fixed edges and declared destinations
RECURSIVE ReachFrom(_, _)
ReachFrom(g, seen) ==
    LET more == {e[2] : e \in {d \in g.edges : d[1] \in seen}}
                \cup UNION {DynSet(g, nm) : nm \in seen \cap NodeNames(g)}
    IN  IF more \subseteq seen THEN seen ELSE ReachFrom(g, seen \cup more)

\* C7: in every returned graph every node is reachable from start over fixed
\* edges and declared dynamic destinations.
C7_EveryNodeReachable ==
    Built => NodeNames(returned) \subseteq ReachFrom(returned, {START})

C7_Witness ==
    /\ Built
    /\ IsKind(KHierarchical)
    /\ call.n = MaxN
    /\ L(MaxN) \in ReachFrom(returned, {START})
    /\ <<START, L(MaxN)>> \notin returned.edges

\* C8: every node function made by _dynamic_stub declares end as a possible
\* destination: end is appended when the choices lack it and the choices are
\* left as they are when they hold it; so every node of a network,
\* supervisor or hierarchical graph may end the flow.
C8_EndAlwaysADestination ==
    /\ stub # NoStub =>
          /\ END \in Range(stub.fn.literal)
          /\ Range(stub.fn.literal) = Range(stub.choices) \cup {END}
          /\ Count(stub.fn.literal, END) =
                (IF END \in Range(stub.choices) THEN Count(stub.choices, END) ELSE 1)
          /\ Len(stub.fn.literal) =
                Len(stub.choices) + (IF END \in Range(stub.choices) THEN 0 ELSE 1)
    /\ (Built /\ ~IsKind(KPipeline)) =>
          /\ Dynamic(returned) = NodeNames(returned)
          /\ \A nm \in NodeNames(returned) :
                /\ END \in DynSet(returned, nm)
                /\ Count(Node(returned, nm).literal, END) = 1

C8_Witness ==
    /\ stub # NoStub
    /\ stub.choices = <<L(1), "supervisor">>
    /\ stub.fn.literal = <<L(1), "supervisor", END>>
    /\ Built
    /\ IsKind(KHierarchical)

RECURSIVE LeftPath(_, _)
LeftPath(i, n) ==
    <<i>> \o (IF 2 * i + 1 < n THEN LeftPath(2 * i + 1, n) ELSE <<>>)

Running == Built /\ cur # Idle

\* C10: a run that follows each node's own behaviour from start: every
\* stub's goto is the first of its declared destinations; a pipeline enters
\* each of its n nodes once and is at end after n + 1 transitions; a
\* one-node hierarchy is at end after two; a network stays on l1, a
\* supervisor graph alternates supervisor and l1, a hierarchy of two or more
\* nodes goes down to its leftmost leaf and then alternates between that
\* leaf and its parent, and none of the three is ever at end.
C10_RunsOfBuiltGraphs ==
    /\ Built =>
          \A nm \in Dynamic(returned) :
              /\ Node(returned, nm).goto = Node(returned, nm).literal[1]
              /\ Node(returned, nm).goto \in DynSet(returned, nm)
    /\ Running =>
          LET n == call.n
              path == LeftPath(0, n)
              d == Len(path)
          IN  /\ steps = 0 <=> cur = START
              /\ cur # END => Cardinality(Successors(returned, cur)) = 1
              /\ IsKind(KPipeline) =>
                    /\ steps <= n + 1
                    /\ steps \in 1..n => cur = L(steps)
                    /\ steps = n + 1 <=> cur = END
                    /\ \A i \in 1..n : visits[L(i)] = (IF i <= steps THEN 1 ELSE 0)
              /\ (IsKind(KHierarchical) /\ n = 1) =>
                    /\ steps <= 2
                    /\ steps = 1 => cur = L(1)
                    /\ steps = 2 <=> cur = END
                    /\ visits[L(1)] = (IF steps >= 1 THEN 1 ELSE 0)
              /\ IsKind(KNetwork) =>
                    /\ cur # END
                    /\ steps >= 1 => cur = L(1)
                    /\ visits[L(1)] = steps
              /\ IsKind(KSupervisor) =>
                    /\ cur # END
                    /\ steps >= 1 =>
                          cur = (IF steps % 2 = 1 THEN "supervisor" ELSE L(1))
              /\ (IsKind(KHierarchical) /\ n >= 2) =>
                    /\ cur # END
                    /\ steps \in 1..d => cur = L(path[steps] + 1)
                    /\ steps > d =>
                          cur = (IF (steps - d) % 2 = 1
                                 THEN L(path[d - 1] + 1) ELSE L(path[d] + 1))

C10_Witness ==
    /\ Running
    /\ IsKind(KHierarchical)
    /\ call.n = 5
    /\ steps = 7
    /\ cur = L(4)
    /\ visits[L(4)] = 3
    /\ visits[L(2)] = 3
    /\ visits[L(1)] = 1

====
